---- MODULE Spec2Model ----
(***************************************************************************)
(* A model of the Conan recipe AxidevIoRecipe (conanfile.py).              *)
(*                                                                         *)
(* The recipe is a class with five class attributes and four lifecycle     *)
(* callbacks.  The host package manager owns the recipe object and its     *)
(* cpp_info metadata object and decides which callback it invokes next;    *)
(* the recipe itself places no guard on that order, so the host is         *)
(* modelled as free to invoke any callback whenever none is running.       *)
(* Every call into the build tooling (cmake_layout, CMake(...),            *)
(* configure, build, install) either completes or raises; the recipe has   *)
(* no try/except, so a raised exception leaves the callback at once.       *)
(*                                                                         *)
(* Strings whose characters matter (names, versions, target names) are     *)
(* sequences of one-character strings.                                     *)
(***************************************************************************)
EXTENDS Naturals, Sequences, FiniteSets

VARIABLES
    name,            \* class attribute name
    version,         \* class attribute version
    package_type,    \* class attribute package_type
    settings,        \* class attribute settings (a tuple)
    generators,      \* class attribute generators (a tuple)
    cpp_info,        \* self.cpp_info: [libs |-> list, props |-> dict]
    entry_info,      \* history: cpp_info as it was when the current/last callback was entered
    pc,              \* position of the running callback, or "idle"
    cmake,           \* the local variable cmake: id of the helper, 0 when unbound
    helpers,         \* number of CMake helpers constructed so far
    log,             \* tool operations invoked by the current/last callback
    outcome,         \* how the last finished callback ended
    tool_error,      \* the failure a tool raised in the current/last callback
    build_folder,    \* artifact base names present in the build folder
    package_folder,  \* artifact base names present in the package folder
    ncalls           \* number of callbacks the host has invoked

vars == <<name, version, package_type, settings, generators, cpp_info, entry_info,
          pc, cmake, helpers, log, outcome, tool_error, build_folder,
          package_folder, ncalls>>

attrs == <<name, version, package_type, settings, generators>>

(***************************************************************************)
(* Bounds                                                                  *)
(***************************************************************************)
\* callbacks the host invokes in one run
MaxCalls == 4
\* length of the libs list the metadata object may hold before the recipe runs
MaxPriorLibs == 1

(***************************************************************************)
(* Literals of the recipe                                                  *)
(***************************************************************************)
RecipeName == <<"a", "x", "i", "d", "e", "v", "-", "i", "o">>

\* slip: the patch component dropped
RecipeVersionTwoParts == <<"0", ".", "3">>

RecipeVersion == <<"0", ".", "3", ".", "0">>

PackageType == "library"

\* slip: an axis left out of the tuple
SettingsNoArch == <<"os", "compiler", "build_type">>

Settings == <<"os", "compiler", "build_type", "arch">>

Generators == <<"CMakeDeps", "CMakeToolchain">>

\* slip: the package name (with a dash) used as the library name
LibNameDash == <<"a", "x", "i", "d", "e", "v", "-", "i", "o">>

LibName == <<"a", "x", "i", "d", "e", "v", "_", "i", "o">>

\* slip: a single colon in the alias
TargetNameSingleColon == <<"a", "x", "i", "d", "e", "v", ":", "i", "o">>

TargetName == <<"a", "x", "i", "d", "e", "v", ":", ":", "i", "o">>

\* slip: the library name (with an underscore) used as the config file name
FileNameUnderscore == <<"a", "x", "i", "d", "e", "v", "_", "i", "o">>

FileName == <<"a", "x", "i", "d", "e", "v", "-", "i", "o">>

\* The base name of the library the project's CMake build target produces.
ArtifactBaseName == <<"a", "x", "i", "d", "e", "v", "_", "i", "o">>

(***************************************************************************)
(* Inputs                                                                  *)
(***************************************************************************)
\* failures a tool call may raise
Errors == {"ConanException", "OSError"}

\* property names a metadata object may carry
PropKeys == {"cmake_target_name", "cmake_file_name", "pkg_config_name"}

\* values found in the metadata object before the recipe runs
PriorNames == {LibName, <<"z">>}

PriorValues == {<<"z">>}

SeqsUpTo(S, n) == UNION {[1..k -> S] : k \in 0..n}

PriorInfos ==
    {[libs |-> l, props |-> p] :
        l \in SeqsUpTo(PriorNames, MaxPriorLibs),
        p \in UNION {[D -> PriorValues] : D \in SUBSET PropKeys}}

NoOutcome == [cb |-> "none", status |-> "none", err |-> "none"]

NoError == [op |-> "none", err |-> "none"]

(***************************************************************************)
(* Python semantics used by the callbacks                                  *)
(***************************************************************************)
\* cpp_info.set_property(k, v): store v under k, keep the other properties
set_property(info, k, v) ==
    [info EXCEPT !.props =
        [x \in (DOMAIN info.props) \cup {k} |-> IF x = k THEN v ELSE info.props[x]]]

\* slip: self.cpp_info.libs += l, extending the list in place
set_libs_extends(info, l) == [info EXCEPT !.libs = info.libs \o l]

\* self.cpp_info.libs = l: the attribute is rebound to a new list
set_libs(info, l) == [info EXCEPT !.libs = l]

\* the host enters a callback: one more call, the metadata on entry remembered
Enter ==
    /\ pc = "idle"
    /\ ncalls < MaxCalls
    /\ ncalls' = ncalls + 1
    /\ entry_info' = cpp_info

\* the callback cb runs off its last statement
Return(cb) ==
    /\ pc' = "idle"
    /\ cmake' = 0
    /\ outcome' = [cb |-> cb, status |-> "returned", err |-> "none"]

\* the tool operation op raises e inside cb; no handler encloses the call
Raise(cb, op, e) ==
    /\ pc' = "idle"
    /\ cmake' = 0
    /\ tool_error' = [op |-> op, err |-> e]
    /\ outcome' = [cb |-> cb, status |-> "raised", err |-> e]

(***************************************************************************)
(* Initial state: a freshly constructed recipe                             *)
(***************************************************************************)
Init ==
    /\ name = RecipeName
    /\ version = RecipeVersion
    /\ package_type = PackageType
    /\ settings = Settings
    /\ generators = Generators
    /\ cpp_info \in PriorInfos
    /\ entry_info = cpp_info
    /\ pc = "idle"
    /\ cmake = 0
    /\ helpers = 0
    /\ log = <<>>
    /\ outcome = NoOutcome
    /\ tool_error = NoError
    /\ build_folder = {}
    /\ package_folder = {}
    /\ ncalls = 0

(***************************************************************************)
(* layout                                                                  *)
(***************************************************************************)
layout ==
    /\ Enter
    /\ log' = <<"cmake_layout">>
    /\ \/ /\ Return("layout")
          /\ tool_error' = NoError
       \/ \E e \in Errors : Raise("layout", "cmake_layout", e)
    /\ UNCHANGED <<attrs, cpp_info, helpers, build_folder, package_folder>>

(***************************************************************************)
(* build                                                                   *)
(***************************************************************************)
\* slip: build() without the configure call
build_skips_configure ==
    /\ Enter
    /\ log' = <<>>
    /\ \/ /\ pc' = "build_build"
          /\ cmake' = helpers + 1
          /\ helpers' = helpers + 1
          /\ tool_error' = NoError
          /\ UNCHANGED outcome
       \/ /\ \E e \in Errors : Raise("build", "CMake", e)
          /\ UNCHANGED helpers
    /\ UNCHANGED <<attrs, cpp_info, build_folder, package_folder>>

build ==
    /\ Enter
    /\ log' = <<>>
    /\ \/ /\ pc' = "build_configure"
          /\ cmake' = helpers + 1
          /\ helpers' = helpers + 1
          /\ tool_error' = NoError
          /\ UNCHANGED outcome
       \/ /\ \E e \in Errors : Raise("build", "CMake", e)
          /\ UNCHANGED helpers
    /\ UNCHANGED <<attrs, cpp_info, build_folder, package_folder>>

\* slip: configure wrapped in try/except that swallows the failure
build_configure_swallows ==
    /\ pc = "build_configure"
    /\ log' = Append(log, "configure")
    /\ pc' = "build_build"
    /\ \/ UNCHANGED tool_error
       \/ \E e \in Errors : tool_error' = [op |-> "configure", err |-> e]
    /\ UNCHANGED <<attrs, cpp_info, entry_info, cmake, helpers, outcome,
                   build_folder, package_folder, ncalls>>

build_configure ==
    /\ pc = "build_configure"
    /\ log' = Append(log, "configure")
    /\ \/ /\ pc' = "build_build"
          /\ UNCHANGED <<cmake, outcome, tool_error>>
       \/ \E e \in Errors : Raise("build", "configure", e)
    /\ UNCHANGED <<attrs, cpp_info, entry_info, helpers, build_folder,
                   package_folder, ncalls>>

build_build ==
    /\ pc = "build_build"
    /\ log' = Append(log, "build")
    /\ \/ /\ Return("build")
          /\ build_folder' = build_folder \cup {ArtifactBaseName}
          /\ UNCHANGED tool_error
       \/ /\ \E e \in Errors : Raise("build", "build", e)
          /\ UNCHANGED build_folder
    /\ UNCHANGED <<attrs, cpp_info, entry_info, helpers, package_folder, ncalls>>

(***************************************************************************)
(* package                                                                 *)
(***************************************************************************)
package ==
    /\ Enter
    /\ log' = <<>>
    /\ \/ /\ pc' = "package_install"
          /\ cmake' = helpers + 1
          /\ helpers' = helpers + 1
          /\ tool_error' = NoError
          /\ UNCHANGED outcome
       \/ /\ \E e \in Errors : Raise("package", "CMake", e)
          /\ UNCHANGED helpers
    /\ UNCHANGED <<attrs, cpp_info, build_folder, package_folder>>

\* slip: package() rebuilds before it installs
package_install_rebuilds ==
    /\ pc = "package_install"
    /\ log' = log \o <<"build", "install">>
    /\ \/ /\ Return("package")
          /\ build_folder' = build_folder \cup {ArtifactBaseName}
          /\ package_folder' = package_folder \cup build_folder'
          /\ UNCHANGED tool_error
       \/ /\ \E e \in Errors : Raise("package", "install", e)
          /\ UNCHANGED <<build_folder, package_folder>>
    /\ UNCHANGED <<attrs, cpp_info, entry_info, helpers, ncalls>>

package_install ==
    /\ pc = "package_install"
    /\ log' = Append(log, "install")
    /\ \/ /\ Return("package")
          /\ package_folder' = package_folder \cup build_folder
          /\ UNCHANGED tool_error
       \/ /\ \E e \in Errors : Raise("package", "install", e)
          /\ UNCHANGED package_folder
    /\ UNCHANGED <<attrs, cpp_info, entry_info, helpers, build_folder, ncalls>>

(***************************************************************************)
(* package_info                                                            *)
(***************************************************************************)
package_info ==
    /\ Enter
    /\ log' = <<>>
    /\ tool_error' = NoError
    /\ cpp_info' = set_libs(cpp_info, <<LibName>>)
    /\ pc' = "package_info_target"
    /\ UNCHANGED <<attrs, cmake, helpers, outcome, build_folder, package_folder>>

package_info_target ==
    /\ pc = "package_info_target"
    /\ cpp_info' = set_property(cpp_info, "cmake_target_name", TargetName)
    /\ pc' = "package_info_file"
    /\ UNCHANGED <<attrs, entry_info, cmake, helpers, log, outcome, tool_error,
                   build_folder, package_folder, ncalls>>

package_info_file ==
    /\ pc = "package_info_file"
    /\ cpp_info' = set_property(cpp_info, "cmake_file_name", FileName)
    /\ Return("package_info")
    /\ UNCHANGED <<attrs, entry_info, helpers, log, tool_error, build_folder,
                   package_folder, ncalls>>

Next ==
    \/ layout
    \/ build
    \/ build_configure
    \/ build_build
    \/ package
    \/ package_install
    \/ package_info
    \/ package_info_target
    \/ package_info_file

Spec == Init /\ [][Next]_vars

(***************************************************************************)
(* Vocabulary of the properties                                            *)
(***************************************************************************)
Range(s) == {s[i] : i \in 1..Len(s)}

IsPrefix(p, s) == Len(p) <= Len(s) /\ SubSeq(s, 1, Len(p)) = p

InfoPcs == {"package_info_target", "package_info_file"}

BuildPcs == {"build_configure", "build_build"}

\* the last callback the host invoked was cb and it has finished
Finished(cb) == pc = "idle" /\ outcome.cb = cb

\* ... and it ran off its end instead of raising
Returned(cb) == Finished(cb) /\ outcome.status = "returned"

\* the strings the specification quotes
Str_axidev_io == <<"a", "x", "i", "d", "e", "v", "_", "i", "o">>

Str_axidev_colons_io == <<"a", "x", "i", "d", "e", "v", ":", ":", "i", "o">>

Str_axidev_dash_io == <<"a", "x", "i", "d", "e", "v", "-", "i", "o">>

Lower == {"a", "b", "c", "d", "e", "f", "g", "h", "i", "j", "k", "l", "m",
          "n", "o", "p", "q", "r", "s", "t", "u", "v", "w", "x", "y", "z"}

Digits == {"0", "1", "2", "3", "4", "5", "6", "7", "8", "9"}

NameChars == Lower \cup Digits \cup {"-", "_", "+", "."}

\* s with every "::" replaced by "_", scanning from the left
RECURSIVE ReplaceColons(_)
ReplaceColons(s) ==
    IF Len(s) = 0 THEN <<>>
    ELSE IF Len(s) >= 2 /\ s[1] = ":" /\ s[2] = ":"
         THEN <<"_">> \o ReplaceColons(SubSeq(s, 3, Len(s)))
         ELSE <<s[1]>> \o ReplaceColons(Tail(s))

\* s split at every "."
RECURSIVE SplitDots(_)
SplitDots(s) ==
    IF \A i \in 1..Len(s) : s[i] # "."
    THEN <<s>>
    ELSE LET i == CHOOSE j \in 1..Len(s) :
                      s[j] = "." /\ \A k \in 1..(j - 1) : s[k] # "."
         IN  <<SubSeq(s, 1, i - 1)>> \o SplitDots(SubSeq(s, i + 1, Len(s)))

(***************************************************************************)
(* C1: when package_info() has returned, cpp_info.libs is the one-element  *)
(* list ["axidev_io"], property cmake_target_name is "axidev::io" and      *)
(* property cmake_file_name is "axidev-io"; every other property is as it  *)
(* was when package_info() was entered.                                    *)
(***************************************************************************)
C1_PublishedMetadata ==
    Returned("package_info") =>
        /\ cpp_info.libs = <<Str_axidev_io>>
        /\ DOMAIN cpp_info.props =
               (DOMAIN entry_info.props) \cup {"cmake_target_name", "cmake_file_name"}
        /\ cpp_info.props["cmake_target_name"] = Str_axidev_colons_io
        /\ cpp_info.props["cmake_file_name"] = Str_axidev_dash_io
        /\ \A k \in (DOMAIN entry_info.props) \ {"cmake_target_name", "cmake_file_name"} :
               cpp_info.props[k] = entry_info.props[k]

\* package_info() has returned on a metadata object that held other libs and
\* an unrelated property before
C1_Witness ==
    /\ Returned("package_info")
    /\ entry_info.libs = <<(<<"z">>)>>
    /\ "pkg_config_name" \in DOMAIN entry_info.props
    /\ "cmake_file_name" \notin DOMAIN entry_info.props

(***************************************************************************)
(* C2: the published cmake_target_name has the form namespace::component   *)
(* and every entry of cpp_info.libs is namespace_component with the same   *)
(* namespace and component, so that replacing "::" by "_" in the target    *)
(* name yields the library name.                                           *)
(***************************************************************************)
C2_NamingConvention ==
    Returned("package_info") =>
        LET t == cpp_info.props["cmake_target_name"]
        IN  /\ cpp_info.libs # <<>>
            /\ \E i \in 2..(Len(t) - 2) :
                   LET ns   == SubSeq(t, 1, i - 1)
                       comp == SubSeq(t, i + 2, Len(t))
                   IN  /\ t[i] = ":" /\ t[i + 1] = ":"
                       /\ ":" \notin Range(ns) \cup Range(comp)
                       /\ \A k \in 1..Len(cpp_info.libs) :
                              cpp_info.libs[k] = ns \o <<"_">> \o comp
            /\ \A k \in 1..Len(cpp_info.libs) : ReplaceColons(t) = cpp_info.libs[k]

\* package_info() has returned after replacing a list of other library names
C2_Witness ==
    /\ Returned("package_info")
    /\ entry_info.libs # <<>>
    /\ entry_info.libs # cpp_info.libs
    /\ Len(cpp_info.props["cmake_target_name"]) > Len(cpp_info.libs[1])

C5_FailurePropagates ==
    tool_error # NoError =>
        /\ pc = "idle"
        /\ outcome.status = "raised"
        /\ outcome.err = tool_error.err
        /\ tool_error.op = "cmake_layout" => outcome.cb = "layout"
        /\ tool_error.op \in {"configure", "build"} => outcome.cb = "build"
        /\ tool_error.op = "install" => outcome.cb = "package"
        /\ tool_error.op = "CMake" => log = <<>>
        /\ tool_error.op # "CMake" => log # <<>> /\ log[Len(log)] = tool_error.op
        /\ tool_error.op = "configure" => "build" \notin Range(log)
        /\ tool_error.op = "configure" => log = <<"configure">>
        /\ tool_error.op = "build" => log = <<"configure", "build">>
        /\ tool_error.op = "install" => log = <<"install">>

\* configure has failed inside build()
C5_Witness ==
    /\ Finished("build")
    /\ tool_error = [op |-> "configure", err |-> "OSError"]

(***************************************************************************)
(* C6: name has at least two characters, all of them lowercase letters,    *)
(* digits or one of - _ + . ; version is three non-empty numeric           *)
(* components separated by dots.                                           *)
(***************************************************************************)
C6_NameVersionSyntax ==
    /\ Len(name) >= 2
    /\ Range(name) \subseteq NameChars
    /\ name = Str_axidev_dash_io
    /\ LET parts == SplitDots(version)
       IN  /\ Len(parts) = 3
           /\ \A i \in 1..Len(parts) :
                  parts[i] # <<>> /\ Range(parts[i]) \subseteq Digits
           /\ parts = <<(<<"0">>), (<<"3">>), (<<"0">>)>>

\* the whole lifecycle has run over the recipe
C6_Witness ==
    /\ Returned("package_info")
    /\ package_folder # {}
    /\ ncalls = MaxCalls

(***************************************************************************)
(* C7: package_type is "library", settings is exactly os, compiler,        *)
(* build_type, arch and generators is exactly CMakeDeps, CMakeToolchain,   *)
(* in every state the callbacks can reach.                                 *)
(***************************************************************************)
C7_FixedAttributes ==
    /\ package_type = "library"
    /\ Range(settings) = {"os", "compiler", "build_type", "arch"}
    /\ Len(settings) = Cardinality(Range(settings))
    /\ Range(generators) = {"CMakeDeps", "CMakeToolchain"}
    /\ Len(generators) = Cardinality(Range(generators))

\* every callback has been invoked at least up to a build that returned
C7_Witness ==
    /\ Returned("layout")
    /\ build_folder # {}
    /\ package_folder # {}
    /\ "cmake_file_name" \in DOMAIN cpp_info.props
    /\ cpp_info.props["cmake_file_name"] = Str_axidev_dash_io

(***************************************************************************)
(* C8: during and after a call of build() the tool operations it has       *)
(* invoked are a prefix of configure, build; the build step is reached     *)
(* only with configure invoked and no failure raised; a build() that       *)
(* returns has invoked exactly configure then build, and never install.    *)
(***************************************************************************)
C8_ConfigureThenBuild ==
    /\ (pc \in BuildPcs \/ Finished("build")) =>
           /\ IsPrefix(log, <<"configure", "build">>)
           /\ "install" \notin Range(log)
    /\ pc = "build_configure" => log = <<>>
    /\ pc = "build_build" => log = <<"configure">> /\ tool_error = NoError
    /\ Returned("build") => log = <<"configure", "build">>

\* a call of build() has returned
C8_Witness ==
    /\ Returned("build")
    /\ build_folder # {}
    /\ tool_error = NoError

(***************************************************************************)
(* C9: no step writes a class attribute; the steps of layout(), build()    *)
(* and package() leave cpp_info unchanged; the steps of package_info()     *)
(* invoke no tool operation, construct no helper and leave both folders    *)
(* unchanged; package() constructs a helper no earlier call used and       *)
(* invokes install only, leaving the build folder unchanged.               *)
(***************************************************************************)
C9_DisjointEffects ==
    [][ /\ attrs' = attrs
        /\ (pc \notin InfoPcs /\ pc' \notin InfoPcs) => cpp_info' = cpp_info
        /\ (pc \in InfoPcs \/ pc' \in InfoPcs) =>
               /\ log' = <<>>
               /\ helpers' = helpers
               /\ cmake' = 0
               /\ build_folder' = build_folder
               /\ package_folder' = package_folder
        /\ pc' = "package_install" =>
               /\ helpers' = helpers + 1
               /\ cmake' = helpers'
               /\ log' = <<>>
        /\ pc = "package_install" =>
               /\ log' = <<"install">>
               /\ build_folder' = build_folder
               /\ helpers' = helpers
      ]_vars

\* package() has returned after package_info() and build() ran
C9_Witness ==
    /\ Returned("package")
    /\ package_folder # {}
    /\ helpers >= 2
    /\ "cmake_target_name" \in DOMAIN cpp_info.props
    /\ cpp_info.props["cmake_target_name"] = Str_axidev_colons_io

(***************************************************************************)
(* C10: a call of package_info() that directly follows a call of           *)
(* package_info() that returned changes the metadata at none of its        *)
(* steps, whatever the metadata was before the first call.                 *)
(***************************************************************************)
C10_Idempotent ==
    [][ (/\ outcome.cb = "package_info"
         /\ outcome.status = "returned"
         /\ (pc \in InfoPcs \/ pc' \in InfoPcs))
        => cpp_info' = cpp_info ]_vars

\* two calls of package_info() in a row have returned, the first on a
\* metadata object with a different libs list and without the properties
C10_Witness ==
    /\ Returned("package_info")
    /\ ncalls = 2
    /\ entry_info = cpp_info
    /\ "cmake_target_name" \in DOMAIN entry_info.props
    /\ entry_info.props["cmake_target_name"] = Str_axidev_colons_io

====
